---- MODULE Spec2Model ----
(***************************************************************************)
(* moltbot-ha (ha_ctl): the safety policy engine (safety.py), the audit    *)
(* logger (logger.py), the API client's service calls (client.py) and the  *)
(* command dispatcher's mutating commands on/off/toggle/set/call (cli.py). *)
(*                                                                         *)
(* A Python str is a sequence of one-character strings, so that glob       *)
(* matching and str.split are computed character by character.             *)
(***************************************************************************)
EXTENDS Integers, Sequences, FiniteSets, TLC

VARIABLES
    config,     \* the SafetyConfig the invocation loaded (config.safety)
    cmd,        \* the command (or function) that ran last
    entity_id,  \* the entity_id handed to the command / to check_action
    action,     \* the action name handed to check_action
    force,      \* the --force flag
    decision,   \* outcome of check_action in this invocation
    events,     \* what the invocation did, in program order
    exit_code,  \* the process exit code
    argv,       \* the other command-line arguments (service, tokens, --json)
    token,      \* config.server.token, once a command has read it
    output      \* what a function applied on its own returned

vars == <<config, cmd, entity_id, action, force, decision, events, exit_code,
          argv, token, output>>

----------------------------------------------------------------------------
(* Bounds *)

\* longest entity id that is enumerated
MaxIdLen == 3
\* longest blocked_entities / allowed_entities list that is enumerated
MaxListLen == 1
\* longest access token that is enumerated
MaxTokenLen == 5
\* longest value of a key=value token that is enumerated
MaxValueLen == 3

----------------------------------------------------------------------------
(* Strings *)

\* characters entity ids are built from: two letters and the separator
IdChars == {"l", "s", "."}

RECURSIVE StringsUpTo(_, _)
StringsUpTo(chars, n) ==
    IF n = 0 THEN {<<>>}
    ELSE LET shorter == StringsUpTo(chars, n - 1)
         IN  shorter \cup {<<c>> \o s : c \in chars, s \in {t \in shorter : Len(t) = n - 1}}

\* every non-empty entity id over IdChars, with and without a '.'
EntityIds == StringsUpTo(IdChars, MaxIdLen) \ {<<>>}

turn_on  == <<"t","u","r","n","_","o","n">>
turn_off == <<"t","u","r","n","_","o","f","f">>
toggle   == <<"t","o","g","g","l","e">>
set      == <<"s","e","t">>
unlock   == <<"u","n","l","o","c","k">>

\* action names: the four write actions and one that is not a write action
ActionNames == {turn_on, turn_off, toggle, set, unlock}

\* str.find: index of the first occurrence of character c in s, 0 if none
RECURSIVE find(_, _, _)
find(s, c, i) ==
    IF i > Len(s) THEN 0
    ELSE IF s[i] = c THEN i
    ELSE find(s, c, i + 1)

\* s.split(sep, 1)[0]: the text before the first sep, the whole of s if none
split_first(s, sep) ==
    LET i == find(s, sep, 1)
    IN  IF i = 0 THEN s ELSE SubSeq(s, 1, i - 1)

\* s.split(sep, 1)[1]: the text after the first sep (s must contain sep)
split_rest(s, sep) ==
    LET i == find(s, sep, 1)
    IN  SubSeq(s, i + 1, Len(s))

\* fnmatch.fnmatch(name, pat) on POSIX: '*' matches any run of characters
\* ('.' included), '?' any one character, any other character itself
RECURSIVE fnmatch(_, _)
fnmatch(name, pat) ==
    IF pat = <<>> THEN name = <<>>
    ELSE IF Head(pat) = "*"
         THEN \E k \in 0..Len(name) :
                 fnmatch(SubSeq(name, k + 1, Len(name)), Tail(pat))
    ELSE IF name = <<>> THEN FALSE
    ELSE IF Head(pat) = "?" THEN fnmatch(Tail(name), Tail(pat))
    ELSE Head(pat) = Head(name) /\ fnmatch(Tail(name), Tail(pat))

----------------------------------------------------------------------------
(* Safety configuration *)

\* glob patterns a blocked_entities / allowed_entities list is drawn from
Patterns == { <<"l", ".", "*">>, <<"*", "?", "l">> }

RECURSIVE ListsUpTo(_, _)
ListsUpTo(S, n) ==
    IF n = 0 THEN {<<>>}
    ELSE LET shorter == ListsUpTo(S, n - 1)
         IN  shorter \cup {Append(l, x) : l \in {t \in shorter : Len(t) = n - 1}, x \in S}

PatternLists == ListsUpTo(Patterns, MaxListLen)

\* critical_domains lists: none, and one critical domain "l"
CriticalDomainLists == { <<>>, << <<"l">> >> }

SafetyConfig ==
    [ level            : 0..3,
      critical_domains : CriticalDomainLists,
      blocked_entities : PatternLists,
      allowed_entities : PatternLists ]

\* x in list
InList(x, list) == \E i \in 1..Len(list) : list[i] = x

----------------------------------------------------------------------------
(* safety.py *)

\* is_blocked comparing for equality instead of glob matching
is_blocked_exact(eid, blocked_list) ==
    \E i \in 1..Len(blocked_list) : blocked_list[i] = eid

is_blocked(eid, blocked_list) ==
    \E i \in 1..Len(blocked_list) : fnmatch(eid, blocked_list[i])

\* is_allowed comparing for equality instead of glob matching
is_allowed_exact(eid, allowed_list) ==
    IF allowed_list = <<>> THEN TRUE
    ELSE \E i \in 1..Len(allowed_list) : allowed_list[i] = eid

is_allowed(eid, allowed_list) ==
    IF allowed_list = <<>> THEN TRUE
    ELSE \E i \in 1..Len(allowed_list) : fnmatch(eid, allowed_list[i])

get_domain(eid) == split_first(eid, ".")

\* the write actions with "set" forgotten
WriteActions_without_set == {turn_on, turn_off, toggle}

WriteActions == {turn_on, turn_off, toggle, set}

\* a line check_action hands to the logging module
SafetyLine(level, tag, act, eid) ==
    [ev |-> "log", level |-> level, tag |-> tag, action |-> act, entity_id |-> eid]

\* check_action with the level-0 return placed after the blocklist and the
\* allowlist (level0_late), or with a write gate that ignores force
\* (gate_ignores_force)
check_action_variant(eid, act, cfg, frc, level0_late, gate_ignores_force) ==
    IF cfg.level = 0 /\ ~level0_late
    THEN [decision |-> "Allowed", log |-> <<SafetyLine("DEBUG", "Safety level 0", act, eid)>>]
    ELSE IF is_blocked(eid, cfg.blocked_entities)
    THEN [decision |-> "Denied", log |-> <<SafetyLine("ERROR", "BLOCKED", act, eid)>>]
    ELSE IF cfg.allowed_entities # <<>> /\ ~is_allowed(eid, cfg.allowed_entities)
    THEN [decision |-> "Denied", log |-> <<SafetyLine("ERROR", "DENIED", act, eid)>>]
    ELSE IF cfg.level = 0
    THEN [decision |-> "Allowed", log |-> <<SafetyLine("DEBUG", "Safety level 0", act, eid)>>]
    ELSE LET domain   == split_first(eid, ".")
             critical == cfg.level >= 3 /\ InList(domain, cfg.critical_domains)
             forced   == IF critical /\ frc
                         THEN <<SafetyLine("WARNING", "FORCED", act, eid)>>
                         ELSE <<>>
         IN  IF critical /\ ~frc
             THEN [decision |-> "RequiresConfirmation",
                   log |-> <<SafetyLine("WARNING", "CRITICAL", act, eid)>>]
             ELSE IF cfg.level >= 2 /\ act \in WriteActions /\ (~frc \/ gate_ignores_force)
             THEN [decision |-> "RequiresConfirmation",
                   log |-> forced \o <<SafetyLine("INFO", "CONFIRM", act, eid)>>]
             ELSE [decision |-> "Allowed",
                   log |-> forced \o <<SafetyLine("DEBUG", "ALLOWED", act, eid)>>]

check_action_level0_late(eid, act, cfg, frc) ==
    check_action_variant(eid, act, cfg, frc, TRUE, FALSE)

check_action_gate_ignores_force(eid, act, cfg, frc) ==
    check_action_variant(eid, act, cfg, frc, FALSE, TRUE)

\* check_action with the critical-domain rule and the write gate placed before
\* the blocklist and the allowlist
check_action_confirm_first(eid, act, cfg, frc) ==
    IF cfg.level = 0
    THEN [decision |-> "Allowed", log |-> <<SafetyLine("DEBUG", "Safety level 0", act, eid)>>]
    ELSE LET domain   == split_first(eid, ".")
             critical == cfg.level >= 3 /\ InList(domain, cfg.critical_domains)
             forced   == IF critical /\ frc
                         THEN <<SafetyLine("WARNING", "FORCED", act, eid)>>
                         ELSE <<>>
         IN  IF critical /\ ~frc
             THEN [decision |-> "RequiresConfirmation",
                   log |-> <<SafetyLine("WARNING", "CRITICAL", act, eid)>>]
             ELSE IF cfg.level >= 2 /\ act \in WriteActions /\ ~frc
             THEN [decision |-> "RequiresConfirmation",
                   log |-> forced \o <<SafetyLine("INFO", "CONFIRM", act, eid)>>]
             ELSE IF is_blocked(eid, cfg.blocked_entities)
             THEN [decision |-> "Denied",
                   log |-> forced \o <<SafetyLine("ERROR", "BLOCKED", act, eid)>>]
             ELSE IF cfg.allowed_entities # <<>> /\ ~is_allowed(eid, cfg.allowed_entities)
             THEN [decision |-> "Denied",
                   log |-> forced \o <<SafetyLine("ERROR", "DENIED", act, eid)>>]
             ELSE [decision |-> "Allowed",
                   log |-> forced \o <<SafetyLine("DEBUG", "ALLOWED", act, eid)>>]

\* check_action with an allowlist that force passes over
check_action_force_skips_allowlist(eid, act, cfg, frc) ==
    IF cfg.level >= 1 /\ ~is_blocked(eid, cfg.blocked_entities) /\ frc
    THEN check_action_variant(eid, act, [cfg EXCEPT !.allowed_entities = <<>>],
                              frc, FALSE, FALSE)
    ELSE check_action_variant(eid, act, cfg, frc, FALSE, FALSE)

\* check_action with a critical-domain rule that applies from level 1 on
check_action_critical_any_level(eid, act, cfg, frc) ==
    IF /\ cfg.level \in 1..2
       /\ ~is_blocked(eid, cfg.blocked_entities)
       /\ cfg.allowed_entities # <<>> => is_allowed(eid, cfg.allowed_entities)
       /\ InList(split_first(eid, "."), cfg.critical_domains)
    THEN IF frc
         THEN LET r == check_action_variant(eid, act, cfg, frc, FALSE, FALSE)
              IN  [r EXCEPT !.log = <<SafetyLine("WARNING", "FORCED", act, eid)>> \o @]
         ELSE [decision |-> "RequiresConfirmation",
               log |-> <<SafetyLine("WARNING", "CRITICAL", act, eid)>>]
    ELSE check_action_variant(eid, act, cfg, frc, FALSE, FALSE)

\* check_action: returning normally is "Allowed", PermissionError is "Denied",
\* CriticalActionError is "RequiresConfirmation"; log holds the logger lines
\* written on the way
check_action(eid, act, cfg, frc) ==
    IF cfg.level = 0
    THEN [decision |-> "Allowed", log |-> <<SafetyLine("DEBUG", "Safety level 0", act, eid)>>]
    ELSE IF is_blocked(eid, cfg.blocked_entities)
    THEN [decision |-> "Denied", log |-> <<SafetyLine("ERROR", "BLOCKED", act, eid)>>]
    ELSE IF cfg.allowed_entities # <<>> /\ ~is_allowed(eid, cfg.allowed_entities)
    THEN [decision |-> "Denied", log |-> <<SafetyLine("ERROR", "DENIED", act, eid)>>]
    ELSE LET domain   == split_first(eid, ".")
             critical == cfg.level >= 3 /\ InList(domain, cfg.critical_domains)
             forced   == IF critical /\ frc
                         THEN <<SafetyLine("WARNING", "FORCED", act, eid)>>
                         ELSE <<>>
         IN  IF critical /\ ~frc
             THEN [decision |-> "RequiresConfirmation",
                   log |-> <<SafetyLine("WARNING", "CRITICAL", act, eid)>>]
             ELSE IF cfg.level >= 2 /\ act \in WriteActions /\ ~frc
             THEN [decision |-> "RequiresConfirmation",
                   log |-> forced \o <<SafetyLine("INFO", "CONFIRM", act, eid)>>]
             ELSE [decision |-> "Allowed",
                   log |-> forced \o <<SafetyLine("DEBUG", "ALLOWED", act, eid)>>]

----------------------------------------------------------------------------
(* logger.py *)

\* log_action: one audit record, "ALLOWED|DENIED: <action> on <entity_id>"
\* followed by " [FORCED]" when forced
log_action(eid, act, forced, allowed) ==
    [ ev        |-> "audit",
      status    |-> IF allowed THEN "ALLOWED" ELSE "DENIED",
      action    |-> act,
      entity_id |-> eid,
      forced    |-> forced,
      level     |-> IF allowed THEN (IF forced THEN "WARNING" ELSE "INFO") ELSE "ERROR" ]

----------------------------------------------------------------------------
(* client.py *)

\* HomeAssistantClient.__init__: max_retries
max_retries == 3

\* Retry(status_forcelist=...)
status_forcelist == {429, 500, 502, 503, 504}

\* what the hub answers to one attempt: an HTTP status, or 0 for a transport
\* failure (connection error, timeout)
TransportFailure == 0

\* answers of the hub to the successive attempts of one request
HubBehaviours ==
    { <<200, 200, 200, 200>>,
      <<404, 404, 404, 404>>,
      <<503, 200, 200, 200>>,
      <<503, 404, 404, 404>>,
      <<503, 503, 503, 503>>,
      <<TransportFailure, TransportFailure, TransportFailure, TransportFailure>> }

\* one attempt of a request, as the hub sees it, with the hub's answer
Request(endpoint, data, attempt, answer) ==
    [ev |-> "request", method |-> "POST", domain |-> endpoint.domain,
     service |-> endpoint.service, data |-> data, attempt |-> attempt,
     answer |-> answer]

\* the ApiError _make_request raises (status 0: no status_code)
Raised(status_code) == <<[ev |-> "ApiError", status_code |-> status_code]>>

\* _make_request retrying every error status, not only those of the force list
RECURSIVE make_request_retry_all_errors(_, _, _, _)
make_request_retry_all_errors(endpoint, data, hub, i) ==
    LET r    == hub[i]
        sent == <<Request(endpoint, data, i, r)>>
    IN  IF r = TransportFailure \/ r >= 400
        THEN IF i > max_retries
             THEN [events |-> sent \o Raised(0), result |-> "ApiError", status_code |-> 0]
             ELSE LET rest == make_request_retry_all_errors(endpoint, data, hub, i + 1)
                  IN  [rest EXCEPT !.events = sent \o @]
        ELSE [events |-> sent, result |-> "ok", status_code |-> r]

\* _make_request through the session's retrying adapter: attempt i is answered
\* by hub[i]; a transport failure or a status of the force list is retried
\* while retries remain, and when none remains the adapter raises (RetryError,
\* ConnectionError), which becomes an ApiError without status_code; any other
\* status >= 400 becomes an ApiError with that status_code.
\* result is "ok" or "ApiError" (status 0: no status_code)
RECURSIVE make_request(_, _, _, _)
make_request(endpoint, data, hub, i) ==
    LET r    == hub[i]
        sent == <<Request(endpoint, data, i, r)>>
    IN  IF r = TransportFailure \/ r \in status_forcelist
        THEN IF i > max_retries
             THEN [events |-> sent \o Raised(0), result |-> "ApiError", status_code |-> 0]
             ELSE LET rest == make_request(endpoint, data, hub, i + 1)
                  IN  [rest EXCEPT !.events = sent \o @]
        ELSE IF r >= 400
        THEN [events |-> sent \o Raised(r), result |-> "ApiError", status_code |-> r]
        ELSE [events |-> sent, result |-> "ok", status_code |-> r]

\* call_service: POST /api/services/<domain>/<service> with the payload
call_service(domain, service, data, hub) ==
    make_request([domain |-> domain, service |-> service], data, hub, 1)

\* a Python str as a payload value
PyStr(s) == [t |-> "str", v |-> s]

entity_id_key == <<"e","n","t","i","t","y","_","i","d">>

\* call_service_for_entity: the domain is the text before the first '.', the
\* payload carries entity_id
call_service_for_entity(eid, service, hub) ==
    call_service(split_first(eid, "."), service,
                 (entity_id_key :> PyStr(eid)), hub)

----------------------------------------------------------------------------
(* Python's str.lower, int and float, on the ASCII characters *)

UpperCase == <<"A","B","C","D","E","F","G","H","I","J","K","L","M",
               "N","O","P","Q","R","S","T","U","V","W","X","Y","Z">>
LowerCase == <<"a","b","c","d","e","f","g","h","i","j","k","l","m",
               "n","o","p","q","r","s","t","u","v","w","x","y","z">>

lower_char(c) ==
    IF \E i \in 1..Len(UpperCase) : UpperCase[i] = c
    THEN LowerCase[CHOOSE i \in 1..Len(UpperCase) : UpperCase[i] = c]
    ELSE c

\* str.lower
lower(s) == [i \in 1..Len(s) |-> lower_char(s[i])]

Digits == <<"0","1","2","3","4","5","6","7","8","9">>
IsDigit(c) == \E i \in 1..Len(Digits) : Digits[i] = c
DigitValue(c) == (CHOOSE i \in 1..Len(Digits) : Digits[i] = c) - 1

Whitespace == {" ", "\t", "\n"}

\* str.strip
RECURSIVE strip(_)
strip(s) ==
    IF s = <<>> THEN s
    ELSE IF Head(s) \in Whitespace THEN strip(Tail(s))
    ELSE IF s[Len(s)] \in Whitespace THEN strip(SubSeq(s, 1, Len(s) - 1))
    ELSE s

\* digits with single underscores allowed between them
is_digit_part(s) ==
    /\ s # <<>>
    /\ IsDigit(s[1])
    /\ IsDigit(s[Len(s)])
    /\ \A i \in 1..Len(s) : IsDigit(s[i]) \/ s[i] = "_"
    /\ \A i \in 1..(Len(s) - 1) : ~(s[i] = "_" /\ s[i + 1] = "_")

unsigned(s) == IF s # <<>> /\ Head(s) \in {"+", "-"} THEN Tail(s) ELSE s

\* int(s) does not raise ValueError
is_int(s) == is_digit_part(unsigned(strip(s)))

RECURSIVE digits_value(_, _)
digits_value(s, acc) ==
    IF s = <<>> THEN acc
    ELSE IF Head(s) = "_" THEN digits_value(Tail(s), acc)
    ELSE digits_value(Tail(s), 10 * acc + DigitValue(Head(s)))

\* int(s)
int_value(s) ==
    LET t == strip(s)
        n == digits_value(unsigned(t), 0)
    IN  IF t # <<>> /\ Head(t) = "-" THEN 0 - n ELSE n

\* the mantissa of a float literal: digits, digits., digits.digits, .digits
is_mantissa(s) ==
    LET dot == find(s, ".", 1)
    IN  IF dot = 0 THEN is_digit_part(s)
        ELSE LET before == SubSeq(s, 1, dot - 1)
                 after  == SubSeq(s, dot + 1, Len(s))
             IN  /\ before # <<>> \/ after # <<>>
                 /\ before = <<>> \/ is_digit_part(before)
                 /\ after = <<>> \/ is_digit_part(after)

\* float(s) does not raise ValueError
is_float(s) ==
    LET t == lower(unsigned(strip(s)))
        e == find(t, "e", 1)
    IN  \/ t \in { <<"i","n","f">>, <<"i","n","f","i","n","i","t","y">>, <<"n","a","n">> }
        \/ /\ e = 0
           /\ is_mantissa(t)
        \/ /\ e > 0
           /\ is_mantissa(SubSeq(t, 1, e - 1))
           /\ is_digit_part(unsigned(SubSeq(t, e + 1, Len(t))))

PyBool(b) == [t |-> "bool", v |-> b]
PyInt(n) == [t |-> "int", v |-> n]
\* a float is kept as the literal it was read from
PyFloat(s) == [t |-> "float", v |-> lower(strip(s))]

----------------------------------------------------------------------------
(* cli.py: the mutating commands *)

true_word  == <<"t","r","u","e">>
false_word == <<"f","a","l","s","e">>
yes_word   == <<"y","e","s">>
no_word    == <<"n","o">>
on_word    == <<"o","n">>
off_word   == <<"o","f","f">>

\* the typing of set trying float before int
parse_attribute_value_float_first(value) ==
    IF lower(value) \in {true_word, yes_word, on_word} THEN PyBool(TRUE)
    ELSE IF lower(value) \in {false_word, no_word, off_word} THEN PyBool(FALSE)
    ELSE IF is_float(value) THEN PyFloat(value)
    ELSE IF is_int(value) THEN PyInt(int_value(value))
    ELSE PyStr(value)

\* set: typing of one value
parse_attribute_value(value) ==
    IF lower(value) \in {true_word, yes_word, on_word} THEN PyBool(TRUE)
    ELSE IF lower(value) \in {false_word, no_word, off_word} THEN PyBool(FALSE)
    ELSE IF is_int(value) THEN PyInt(int_value(value))
    ELSE IF is_float(value) THEN PyFloat(value)
    ELSE PyStr(value)

\* call: typing of one value
parse_param_value(value) ==
    IF lower(value) \in {true_word, yes_word} THEN PyBool(TRUE)
    ELSE IF lower(value) \in {false_word, no_word} THEN PyBool(FALSE)
    ELSE IF is_int(value) THEN PyInt(int_value(value))
    ELSE IF is_float(value) THEN PyFloat(value)
    ELSE PyStr(value)

\* dict assignment data[key] = value
SetItem(data, key, value) ==
    [k \in DOMAIN data \cup {key} |-> IF k = key THEN value ELSE data[k]]

EmptyDict == [k \in {} |-> PyStr(<<>>)]

\* set: the loop over the key=value tokens, from token i on
RECURSIVE parse_attributes(_, _, _)
parse_attributes(attributes, i, data) ==
    IF i > Len(attributes) THEN [ok |-> TRUE, data |-> data]
    ELSE IF find(attributes[i], "=", 1) = 0 THEN [ok |-> FALSE, data |-> data]
    ELSE parse_attributes(attributes, i + 1,
            SetItem(data, split_first(attributes[i], "="),
                    parse_attribute_value(split_rest(attributes[i], "="))))

\* the loop of call skipping a token without '=' instead of failing
RECURSIVE parse_params_skip_bad(_, _, _)
parse_params_skip_bad(params, i, data) ==
    IF i > Len(params) THEN [ok |-> TRUE, data |-> data]
    ELSE IF find(params[i], "=", 1) = 0 THEN parse_params_skip_bad(params, i + 1, data)
    ELSE parse_params_skip_bad(params, i + 1,
            SetItem(data, split_first(params[i], "="),
                    parse_param_value(split_rest(params[i], "="))))

\* call: the loop over the key=value tokens, from token i on
RECURSIVE parse_params(_, _, _)
parse_params(params, i, data) ==
    IF i > Len(params) THEN [ok |-> TRUE, data |-> data]
    ELSE IF find(params[i], "=", 1) = 0 THEN [ok |-> FALSE, data |-> data]
    ELSE parse_params(params, i + 1,
            SetItem(data, split_first(params[i], "="),
                    parse_param_value(split_rest(params[i], "="))))

\* the check_action call of a command, as an event
Checked(eid, act, frc, r) ==
    <<[ev |-> "check", entity_id |-> eid, action |-> act, force |-> frc,
       decision |-> r.decision]>> \o r.log

\* the line call_service hands to the logging module
CallingService(domain, service, data) ==
    <<[ev |-> "log", level |-> "INFO", tag |-> "Calling service",
       domain |-> domain, service |-> service, data |-> data]>>

\* what the command printed before raising typer.Exit(1)
Printed(msg) == <<[ev |-> "print", msg |-> msg]>>

\* an exception no except clause of the command catches
Unhandled(error) == <<[ev |-> "unhandled", error |-> error]>>

\* on/off/toggle calling the service before the safety check
switch_command_call_first(eid, service, cfg, frc, hub) ==
    LET r       == check_action(eid, service, cfg, frc)
        checked == Checked(eid, service, frc, r)
        c       == call_service_for_entity(eid, service, hub)
        sent    == CallingService(split_first(eid, "."), service,
                                  (entity_id_key :> PyStr(eid))) \o c.events
    IN  IF c.result = "ApiError"
        THEN [decision |-> "NotEvaluated", events |-> sent, exit_code |-> 1]
        ELSE IF r.decision = "RequiresConfirmation"
        THEN [decision |-> r.decision, events |-> sent \o checked, exit_code |-> 1]
        ELSE IF r.decision = "Denied"
        THEN [decision |-> r.decision,
              events |-> sent \o checked \o <<log_action(eid, service, frc, FALSE)>>,
              exit_code |-> 1]
        ELSE [decision |-> r.decision,
              events |-> sent \o checked \o <<log_action(eid, service, frc, TRUE)>>,
              exit_code |-> 0]

\* on, off, toggle: the body the three commands share, service being
\* turn_on, turn_off or toggle
switch_command(eid, service, cfg, frc, hub) ==
    LET r       == check_action(eid, service, cfg, frc)
        checked == Checked(eid, service, frc, r)
        c       == call_service_for_entity(eid, service, hub)
        sent    == CallingService(split_first(eid, "."), service,
                                  (entity_id_key :> PyStr(eid))) \o c.events
    IN  IF r.decision = "RequiresConfirmation"
        THEN [decision |-> r.decision, events |-> checked, exit_code |-> 1]
        ELSE IF r.decision = "Denied"
        THEN [decision |-> r.decision,
              events |-> checked \o <<log_action(eid, service, frc, FALSE)>>,
              exit_code |-> 1]
        ELSE IF c.result = "ApiError"
        THEN [decision |-> r.decision, events |-> checked \o sent, exit_code |-> 1]
        ELSE [decision |-> r.decision,
              events |-> checked \o sent \o <<log_action(eid, service, frc, TRUE)>>,
              exit_code |-> 0]

\* set <entity_id> <key=value>... [--force]
set_command(eid, attributes, cfg, frc, hub) ==
    LET parsed  == parse_attributes(attributes, 1, (entity_id_key :> PyStr(eid)))
        r       == check_action(eid, set, cfg, frc)
        checked == Checked(eid, set, frc, r)
        domain  == split_first(eid, ".")
        c       == call_service(domain, turn_on, parsed.data, hub)
        sent    == CallingService(domain, turn_on, parsed.data) \o c.events
    IN  IF ~parsed.ok
        THEN [decision |-> "NotEvaluated",
              events |-> Printed("Invalid attribute format"), exit_code |-> 1]
        ELSE IF r.decision = "RequiresConfirmation"
        THEN [decision |-> r.decision, events |-> checked, exit_code |-> 1]
        ELSE IF r.decision = "Denied"
        THEN [decision |-> r.decision,
              events |-> checked \o <<log_action(eid, set, frc, FALSE)>>,
              exit_code |-> 1]
        ELSE IF c.result = "ApiError"
        THEN [decision |-> r.decision, events |-> checked \o sent, exit_code |-> 1]
        ELSE [decision |-> r.decision,
              events |-> checked \o sent \o <<log_action(eid, set, frc, TRUE)>>,
              exit_code |-> 0]

\* the --json option: absent, or the empty text, or a text json.loads
\* rejects, or a text it parses to value
NoJson == [given |-> FALSE, empty |-> FALSE, valid |-> FALSE, value |-> EmptyDict]
EmptyJson == [given |-> TRUE, empty |-> TRUE, valid |-> FALSE, value |-> EmptyDict]
BadJson == [given |-> TRUE, empty |-> FALSE, valid |-> FALSE, value |-> EmptyDict]
Json(value) == [given |-> TRUE, empty |-> FALSE, valid |-> TRUE, value |-> value]

\* "if json_data:" is false for None and for the empty text
truthy(json_data) == json_data.given /\ ~json_data.empty

\* check_action on a payload value that is not a str: fnmatch and split raise
check_action_not_str(cfg) ==
    IF cfg.level = 0 THEN "Allowed"
    ELSE IF cfg.blocked_entities # <<>> \/ cfg.allowed_entities # <<>> THEN "TypeError"
    ELSE "AttributeError"

\* call <domain.service> [key=value...] [--json <payload>] [--force]
call_command(service, params, json_data, cfg, frc, hub) ==
    LET domain       == split_first(service, ".")
        service_name == split_rest(service, ".")
        parsed       == IF truthy(json_data)
                        THEN [ok |-> json_data.valid, data |-> json_data.value]
                        ELSE parse_params(params, 1, EmptyDict)
        data         == parsed.data
        has_entity   == entity_id_key \in DOMAIN data
        target       == data[entity_id_key]
        evaluated    == has_entity /\ ~frc
        r            == check_action(target.v, service_name, cfg, frc)
        checked      == IF evaluated THEN Checked(target.v, service_name, frc, r) ELSE <<>>
        c            == call_service(domain, service_name, data, hub)
        sent         == CallingService(domain, service_name, data) \o c.events
    IN  IF find(service, ".", 1) = 0
        THEN [decision |-> "NotEvaluated", events |-> Printed("Invalid service format"),
              exit_code |-> 1]
        ELSE IF ~parsed.ok
        THEN [decision |-> "NotEvaluated",
              events |-> Printed(IF truthy(json_data) THEN "Invalid JSON"
                                 ELSE "Invalid parameter format"),
              exit_code |-> 1]
        ELSE IF evaluated /\ target.t # "str" /\ check_action_not_str(cfg) # "Allowed"
        THEN [decision |-> "NotEvaluated",
              events |-> Unhandled(check_action_not_str(cfg)), exit_code |-> 1]
        ELSE IF evaluated /\ target.t = "str" /\ r.decision # "Allowed"
        THEN [decision |-> r.decision, events |-> checked, exit_code |-> 1]
        ELSE LET dec == IF evaluated THEN "Allowed" ELSE "NotEvaluated"
             IN  IF c.result = "ApiError"
                 THEN [decision |-> dec, events |-> checked \o sent, exit_code |-> 1]
                 ELSE [decision |-> dec, events |-> checked \o sent, exit_code |-> 0]

----------------------------------------------------------------------------
(* The policy engine called on its own *)

\* no service, no key=value tokens, no --json
NoArgs == [service |-> <<>>, tokens |-> <<>>, json_data |-> NoJson]

\* characters tokens are built from
TokenChars == {"a", "b", "c"}

\* config.server.token: load_config accepts any non-empty token
Tokens == StringsUpTo(TokenChars, MaxTokenLen) \ {<<>>}

DefaultConfig ==
    [ level |-> 3, critical_domains |-> << <<"l">> >>,
      blocked_entities |-> <<>>, allowed_entities |-> <<>> ]

Init ==
    /\ config = DefaultConfig
    /\ cmd = "none"
    /\ entity_id = <<>>
    /\ action = <<>>
    /\ force = FALSE
    /\ decision = "NotEvaluated"
    /\ events = <<>>
    /\ exit_code = 0
    /\ argv = NoArgs
    /\ token = <<>>
    /\ output = <<>>

\* one call of check_action, on a configuration, an entity id, an action name
\* and a force flag
CheckAction ==
    /\ cmd = "none"
    /\ \E cfg \in SafetyConfig, eid \in EntityIds, act \in ActionNames, frc \in BOOLEAN :
        LET r == check_action(eid, act, cfg, frc)
        IN  /\ config' = cfg
            /\ cmd' = "check_action"
            /\ entity_id' = eid
            /\ action' = act
            /\ force' = frc
            /\ decision' = r.decision
            /\ events' = r.log
            /\ exit_code' = 0
            /\ UNCHANGED <<argv, token, output>>

NextPolicy == CheckAction

SpecPolicy == Init /\ [][NextPolicy]_vars

----------------------------------------------------------------------------
(* One invocation of the command line *)

b_key == <<"b">>
Token(key, value) == key \o <<"=">> \o value

\* argument lists of set: a number, a boolean literal, a token without '=',
\* and tokens that name the key entity_id
AttributeLists ==
    { << Token(b_key, <<"1">>) >>,
      << Token(b_key, <<"O", "n">>) >>,
      << b_key >>,
      << Token(entity_id_key, <<"l", ".", "s">>) >>,
      << Token(b_key, <<"1", ".", "5">>), Token(entity_id_key, <<"s", ".", "l">>) >> }

\* argument lists of call
ParamLists ==
    { <<>>,
      << Token(entity_id_key, <<"l", ".", "s">>) >>,
      << Token(entity_id_key, <<"s", ".", "l">>) >>,
      << Token(entity_id_key, yes_word) >>,
      << b_key >>,
      << Token(b_key, on_word) >> }

\* --json payloads of call
JsonInputs ==
    { NoJson,
      EmptyJson,
      BadJson,
      Json((entity_id_key :> PyStr(<<"l", ".", "s">>))),
      Json((entity_id_key :> [t |-> "list", v |-> << <<"l", ".", "s">> >>])) }

\* service arguments of call, with and without the '.'
Services ==
    { <<"l", ".">> \o turn_on, <<"s", ".">> \o unlock, <<"l">> \o unlock }

\* A process runs one command and exits (cmd = "none" before it ran). Every
\* command first loads the configuration: cfg is config.safety of a
\* configuration that loaded, with a server url and a token.
Done(name, cfg, eid, act, frc, r, args) ==
    /\ argv' = args
    /\ UNCHANGED <<token, output>>
    /\ config' = cfg
    /\ cmd' = name
    /\ entity_id' = eid
    /\ action' = act
    /\ force' = frc
    /\ decision' = r.decision
    /\ events' = r.events
    /\ exit_code' = r.exit_code

On ==
    /\ cmd = "none"
    /\ \E cfg \in SafetyConfig, eid \in EntityIds, frc \in BOOLEAN, hub \in HubBehaviours :
          Done("on", cfg, eid, turn_on, frc, switch_command(eid, turn_on, cfg, frc, hub),
               NoArgs)

Off ==
    /\ cmd = "none"
    /\ \E cfg \in SafetyConfig, eid \in EntityIds, frc \in BOOLEAN, hub \in HubBehaviours :
          Done("off", cfg, eid, turn_off, frc, switch_command(eid, turn_off, cfg, frc, hub),
               NoArgs)

Toggle ==
    /\ cmd = "none"
    /\ \E cfg \in SafetyConfig, eid \in EntityIds, frc \in BOOLEAN, hub \in HubBehaviours :
          Done("toggle", cfg, eid, toggle, frc, switch_command(eid, toggle, cfg, frc, hub),
               NoArgs)

Set ==
    /\ cmd = "none"
    /\ \E cfg \in SafetyConfig, eid \in EntityIds, attributes \in AttributeLists,
          frc \in BOOLEAN, hub \in HubBehaviours :
          Done("set", cfg, eid, set, frc, set_command(eid, attributes, cfg, frc, hub),
               [service |-> <<>>, tokens |-> attributes, json_data |-> NoJson])

Call ==
    /\ cmd = "none"
    /\ \E cfg \in SafetyConfig, service \in Services, params \in ParamLists,
          json_data \in JsonInputs, frc \in BOOLEAN, hub \in HubBehaviours :
          Done("call", cfg, service, split_rest(service, "."), frc,
               call_command(service, params, json_data, cfg, frc, hub),
               [service |-> service, tokens |-> params, json_data |-> json_data])

Next == Call \/ On \/ Off \/ Toggle \/ Set

Spec == Init /\ [][Next]_vars

----------------------------------------------------------------------------
(* The key=value typing of set and of call applied to one token *)

\* characters the values are built from: letters of the boolean literals in
\* both cases, a digit, and the characters of numbers and of the separator
ValueChars == {"o", "n", "N", "f", "1", ".", "e", "_", "-", "="}

Values == StringsUpTo(ValueChars, MaxValueLen)

\* the token b=<value> typed by the loop of set and by the loop of call
ParseToken ==
    /\ cmd = "none"
    /\ \E value \in Values :
          /\ cmd' = "parse"
          /\ argv' = [NoArgs EXCEPT !.tokens = << Token(b_key, value) >>]
          /\ output' = [ attribute |-> parse_attributes(<< Token(b_key, value) >>, 1, EmptyDict),
                         param     |-> parse_params(<< Token(b_key, value) >>, 1, EmptyDict) ]
          /\ UNCHANGED <<config, entity_id, action, force, decision, events,
                         exit_code, token>>

NextParse == ParseToken

SpecParse == Init /\ [][NextParse]_vars

----------------------------------------------------------------------------
(* config show *)

\* number of trailing characters of the token that are displayed
ShownChars == 4

\* s[-n:]
last_chars(s, n) == IF Len(s) <= n THEN s ELSE SubSeq(s, Len(s) - n + 1, Len(s))

\* the text displayed for server.token
masked_token(tok) ==
    <<"*", "*", "*">> \o (IF tok # <<>> THEN last_chars(tok, ShownChars) ELSE <<>>)

\* config show on a configuration that loaded with the token tok: prints the
\* display dict, here its server.token and its safety section
ConfigShow ==
    /\ cmd = "none"
    /\ \E tok \in Tokens :
          /\ cmd' = "config_show"
          /\ token' = tok
          /\ output' = [ server |-> [token |-> masked_token(tok)],
                         safety |-> config ]
          /\ exit_code' = 0
          /\ UNCHANGED <<config, entity_id, action, force, decision, events, argv>>

NextConfig == ConfigShow

SpecConfig == Init /\ [][NextConfig]_vars

----------------------------------------------------------------------------
(* Properties of the policy engine (checked under SpecPolicy) *)

\* C1: at level >= 1 an entity id that glob-matches a blocked_entities pattern
\* is Denied, for every action name, with and without force.
C1_BlockedIsDenied ==
    ( /\ cmd = "check_action"
      /\ config.level >= 1
      /\ \E i \in 1..Len(config.blocked_entities) :
             fnmatch(entity_id, config.blocked_entities[i]) )
    => decision = "Denied"

C1_Witness ==
    /\ cmd = "check_action"
    /\ config.level = 3
    /\ config.blocked_entities = << <<"l", ".", "*">> >>
    /\ entity_id = <<"l", ".", "s">>
    /\ force = TRUE
    /\ decision = "Denied"

\* C3: at level 0 every request is Allowed, whatever the entity, the action,
\* the force flag and the lists.
C3_LevelZeroAllows ==
    (cmd = "check_action" /\ config.level = 0) => decision = "Allowed"

C3_Witness ==
    /\ cmd = "check_action"
    /\ config.level = 0
    /\ is_blocked(entity_id, config.blocked_entities)
    /\ config.allowed_entities # <<>>
    /\ ~is_allowed(entity_id, config.allowed_entities)
    /\ InList(get_domain(entity_id), config.critical_domains)
    /\ ~force
    /\ decision = "Allowed"

\* C4: at level >= 1 with a non-empty allowlist, an entity id matching none of
\* its patterns is Denied; an entity id that is not blocked and matches a
\* pattern (or any unblocked id when the allowlist is empty) is not Denied:
\* its outcome is the one of the critical-domain and write-gate rules.
C4_AllowlistRule ==
    (cmd = "check_action" /\ config.level >= 1) =>
        LET matches == \E i \in 1..Len(config.allowed_entities) :
                          fnmatch(entity_id, config.allowed_entities[i])
            blocked == \E i \in 1..Len(config.blocked_entities) :
                          fnmatch(entity_id, config.blocked_entities[i])
            confirm == /\ ~force
                       /\ \/ /\ config.level >= 3
                             /\ InList(get_domain(entity_id), config.critical_domains)
                          \/ /\ config.level >= 2
                             /\ action \in {turn_on, turn_off, toggle, set}
        IN  /\ (config.allowed_entities # <<>> /\ ~matches) => decision = "Denied"
            /\ (~blocked /\ (config.allowed_entities = <<>> \/ matches)) =>
                   /\ decision # "Denied"
                   /\ decision = (IF confirm THEN "RequiresConfirmation" ELSE "Allowed")

C4_Witness ==
    /\ cmd = "check_action"
    /\ config.level = 1
    /\ config.blocked_entities = <<>>
    /\ config.allowed_entities = << <<"*", "?", "l">> >>
    /\ entity_id = <<"s", ".", "l">>
    /\ decision = "Allowed"

C4_WitnessMiss ==
    /\ cmd = "check_action"
    /\ config.level = 1
    /\ config.blocked_entities = <<>>
    /\ config.allowed_entities = << <<"*", "?", "l">> >>
    /\ entity_id = <<"l", ".", "s">>
    /\ force = TRUE
    /\ decision = "Denied"

\* C5: at level >= 3, for an entity that is not blocked, passes the allowlist
\* and whose domain is critical: without force the outcome is
\* RequiresConfirmation for every action name, with force it is Allowed.
C5_CriticalDomain ==
    ( /\ cmd = "check_action"
      /\ config.level >= 3
      /\ ~is_blocked(entity_id, config.blocked_entities)
      /\ is_allowed(entity_id, config.allowed_entities)
      /\ InList(get_domain(entity_id), config.critical_domains) )
    => decision = (IF force THEN "Allowed" ELSE "RequiresConfirmation")

C5_Witness ==
    /\ cmd = "check_action"
    /\ config.level = 3
    /\ config.critical_domains = << <<"l">> >>
    /\ entity_id = <<"l", ".", "s">>
    /\ action = turn_on
    /\ force = TRUE
    /\ decision = "Allowed"

C5_WitnessUnforced ==
    /\ cmd = "check_action"
    /\ config.level = 3
    /\ config.critical_domains = << <<"l">> >>
    /\ entity_id = <<"l", ".", "s">>
    /\ action = unlock
    /\ force = FALSE
    /\ decision = "RequiresConfirmation"

\* C6: at level >= 2, without force, for an entity that is not blocked, passes
\* the allowlist and is not in a critical domain: a write action (turn_on,
\* turn_off, toggle, set) is RequiresConfirmation, any other action is Allowed.
C6_WriteGate ==
    ( /\ cmd = "check_action"
      /\ config.level >= 2
      /\ ~force
      /\ ~is_blocked(entity_id, config.blocked_entities)
      /\ is_allowed(entity_id, config.allowed_entities)
      /\ ~InList(get_domain(entity_id), config.critical_domains) )
    => decision = (IF action \in {turn_on, turn_off, toggle, set}
                   THEN "RequiresConfirmation" ELSE "Allowed")

C6_Witness ==
    /\ cmd = "check_action"
    /\ config.level = 2
    /\ entity_id = <<"s", ".", "l">>
    /\ action = set
    /\ ~force
    /\ decision = "RequiresConfirmation"

C6_WitnessOther ==
    /\ cmd = "check_action"
    /\ config.level = 2
    /\ entity_id = <<"s", ".", "l">>
    /\ action = unlock
    /\ ~force
    /\ decision = "Allowed"

----------------------------------------------------------------------------
(* Properties of the commands (checked under Spec) *)

EntityCommands == {"on", "off", "toggle", "set"}
MutatingCommands == EntityCommands \cup {"call"}

\* positions of the requests that reached the hub
RequestsSent == {i \in 1..Len(events) : events[i].ev = "request"}

\* positions of the audit records log_action wrote
AuditRecords == {i \in 1..Len(events) : events[i].ev = "audit"}

\* C2: with level >= 1, no command (on, off, toggle, set, call; with or without
\* --force) sends the hub a service call whose entity_id matches a
\* blocked_entities pattern.
C2_BlocklistAbsolute ==
    (cmd \in MutatingCommands /\ config.level >= 1) =>
        \A i \in RequestsSent :
            ( /\ entity_id_key \in DOMAIN events[i].data
              /\ events[i].data[entity_id_key].t = "str" )
            => ~\E k \in 1..Len(config.blocked_entities) :
                   fnmatch(events[i].data[entity_id_key].v, config.blocked_entities[k])

\* C7: on, off, toggle and set reject an entity id without a '.' as an input
\* error: the policy is not evaluated, no request is sent, the exit code is 1.
C7_NoDotIsInputError ==
    (cmd \in EntityCommands /\ find(entity_id, ".", 1) = 0) =>
        /\ decision = "NotEvaluated"
        /\ RequestsSent = {}
        /\ exit_code = 1

\* C8: in on, off, toggle and set every request to the hub comes after the
\* check_action call of the command's entity and action, which returned Allowed;
\* when the decision is Denied or RequiresConfirmation nothing is sent and the
\* exit code is 1.
C8_CallOnlyAfterAllowed ==
    cmd \in EntityCommands =>
        /\ \A i \in RequestsSent :
              \E j \in 1..(i - 1) :
                  /\ events[j].ev = "check"
                  /\ events[j].entity_id = entity_id
                  /\ events[j].action = action
                  /\ events[j].force = force
                  /\ events[j].decision = "Allowed"
        /\ RequestsSent # {} => decision = "Allowed"
        /\ decision \in {"Denied", "RequiresConfirmation"} =>
              RequestsSent = {} /\ exit_code = 1

C8_Witness ==
    /\ cmd = "set"
    /\ config.level = 3
    /\ force
    /\ decision = "Allowed"
    /\ RequestsSent # {}
    /\ exit_code = 0

C8_WitnessRefused ==
    /\ cmd = "on"
    /\ decision = "RequiresConfirmation"
    /\ RequestsSent = {}
    /\ exit_code = 1

\* C9: every Denied and every RequiresConfirmation outcome, in on, off, toggle,
\* set and call, is followed by an audit record with allowed = false that
\* carries the entity, the action and the force flag.
C9_RefusalsAreAudited ==
    (cmd \in MutatingCommands /\ decision \in {"Denied", "RequiresConfirmation"}) =>
        \E i \in AuditRecords :
            /\ events[i].status = "DENIED"
            /\ events[i].forced = force
            /\ \E j \in 1..(i - 1) :
                  /\ events[j].ev = "check"
                  /\ events[j].entity_id = events[i].entity_id

\* C10: every Allowed decision, in on, off, toggle, set and call, is recorded
\* as an ALLOWED audit record, marked forced exactly when --force was passed,
\* whether the API call then succeeds or fails.
C10_AllowedIsAudited ==
    (cmd \in MutatingCommands /\ decision = "Allowed") =>
        \E i \in AuditRecords :
            /\ events[i].status = "ALLOWED"
            /\ events[i].forced = force

\* some token has no '='
HasTokenWithoutEquals(tokens) ==
    \E i \in 1..Len(tokens) : find(tokens[i], "=", 1) = 0

\* the command ended with exit code 1 before check_action and before any request
EndedBeforePolicyAndNetwork ==
    /\ exit_code = 1
    /\ decision = "NotEvaluated"
    /\ \A i \in 1..Len(events) : events[i].ev \notin {"check", "request"}

\* C11 as stated: in set a token without '=', in call a service without '.',
\* a parameter token without '=' or a --json payload that does not parse end
\* the command with exit code 1 before check_action and before any request.
C11_InputErrorsPreempt ==
    /\ (cmd = "set" /\ HasTokenWithoutEquals(argv.tokens)) => EndedBeforePolicyAndNetwork
    /\ ( /\ cmd = "call"
         /\ \/ find(argv.service, ".", 1) = 0
            \/ HasTokenWithoutEquals(argv.tokens)
            \/ argv.json_data.given /\ ~argv.json_data.valid )
       => EndedBeforePolicyAndNetwork

\* C11 (amended): in set a token without '=', in call a service without '.',
\* a non-empty --json payload that does not parse, or, when no non-empty --json
\* payload is given, a parameter token without '=', end the command with exit
\* code 1 before check_action and before any request.
C11_InputErrorsPreemptAmended ==
    /\ (cmd = "set" /\ HasTokenWithoutEquals(argv.tokens)) => EndedBeforePolicyAndNetwork
    /\ ( /\ cmd = "call"
         /\ \/ find(argv.service, ".", 1) = 0
            \/ /\ argv.json_data.given /\ ~argv.json_data.empty
               /\ ~argv.json_data.valid
            \/ /\ ~(argv.json_data.given /\ ~argv.json_data.empty)
               /\ HasTokenWithoutEquals(argv.tokens) )
       => EndedBeforePolicyAndNetwork

C11_Witness ==
    /\ cmd = "call"
    /\ find(argv.service, ".", 1) > 0
    /\ argv.json_data = NoJson
    /\ HasTokenWithoutEquals(argv.tokens)
    /\ config.level = 0
    /\ force
    /\ exit_code = 1
    /\ events = Printed("Invalid parameter format")

C11_WitnessSet ==
    /\ cmd = "set"
    /\ HasTokenWithoutEquals(argv.tokens)
    /\ config.level = 0
    /\ exit_code = 1
    /\ events = Printed("Invalid attribute format")

----------------------------------------------------------------------------
(* Properties of the key=value typing (checked under SpecParse) *)

\* the text after "b=" of the token that was typed
TypedText == SubSeq(argv.tokens[1], 3, Len(argv.tokens[1]))

OnlyChars(s, chars) == \A i \in 1..Len(s) : s[i] \in chars

\* 1, 11, 111, ...: the number written with n digits 1
Repunit(n) == (10 ^ n - 1) \div 9

\* C12: set splits a token at its first '=' and types the value as a boolean
\* literal (true/yes/on, false/no/off, in any case) before an integer before a
\* floating-point number before a raw string; on and off are never strings.
C12_SetTyping ==
    cmd = "parse" =>
        LET data  == output.attribute.data
            typed == data[b_key]
            text  == TypedText
            word  == [i \in 1..Len(text) |-> IF text[i] = "N" THEN "n" ELSE text[i]]
        IN  /\ output.attribute.ok
            /\ DOMAIN data = {b_key}
            /\ typed.t \in {"bool", "int", "float", "str"}
            /\ word \in {<<"o", "n">>} => typed = [t |-> "bool", v |-> TRUE]
            /\ word \in {<<"n", "o">>, <<"o", "f", "f">>} => typed = [t |-> "bool", v |-> FALSE]
            /\ typed.t = "bool" => word \in {<<"o", "n">>, <<"n", "o">>, <<"o", "f", "f">>}
            /\ (text # <<>> /\ OnlyChars(text, {"1"})) =>
                  typed = [t |-> "int", v |-> Repunit(Len(text))]
            /\ (\E i \in 2..(Len(text) - 1) :
                   /\ text[i] = "."
                   /\ OnlyChars(SubSeq(text, 1, i - 1), {"1"})
                   /\ OnlyChars(SubSeq(text, i + 1, Len(text)), {"1"})) =>
                  typed = [t |-> "float", v |-> text]
            /\ typed.t = "int" => OnlyChars(text, {"1", "_", "-"})
            /\ typed.t = "float" => \E i \in 1..Len(text) : text[i] \in {".", "e"}
            /\ typed.t = "str" => typed.v = text
            /\ (OnlyChars(text, {"o", "n", "N", "f", "="}) /\ typed.t # "bool") =>
                  typed = [t |-> "str", v |-> text]

C12_Witness ==
    /\ cmd = "parse"
    /\ TypedText = <<"o", "N">>
    /\ output.attribute.data[b_key] = [t |-> "bool", v |-> TRUE]

C12_WitnessInt ==
    /\ cmd = "parse"
    /\ TypedText = <<"1", "1">>
    /\ output.attribute.data[b_key] = [t |-> "int", v |-> 11]

C12_WitnessSplit ==
    /\ cmd = "parse"
    /\ TypedText = <<"1", "=", "1">>
    /\ output.attribute.data[b_key] = [t |-> "str", v |-> <<"1", "=", "1">>]

\* C13: call types every value exactly as set does (on and off included).
C13_CallTypesAsSet ==
    cmd = "parse" => output.param = output.attribute

----------------------------------------------------------------------------
(* Properties of the API client inside the commands (checked under Spec) *)

\* positions of the check_action calls
PolicyEvaluations == {i \in 1..Len(events) : events[i].ev = "check"}

\* positions of the call_service calls
ClientCalls ==
    {i \in 1..Len(events) : events[i].ev = "log" /\ events[i].tag = "Calling service"}

\* positions of the ApiErrors raised
ApiErrors == {i \in 1..Len(events) : events[i].ev = "ApiError"}

Retried(answer) == answer = 0 \/ answer \in {429, 500, 502, 503, 504}

\* positions of the requests the hub answered with a status
RequestsAnswered == {i \in RequestsSent : events[i].answer # 0}

\* C14 as stated: an invocation evaluates the policy at most once and a
\* service request reaches the hub at most once.
C14_AtMostOneRequest ==
    cmd \in MutatingCommands =>
        /\ Cardinality(PolicyEvaluations) <= 1
        /\ Cardinality(RequestsAnswered) <= 1

\* C14 (amended): an invocation evaluates the policy at most once and calls
\* the API client at most once; that one request reaches the hub at most
\* max_retries + 1 = 4 times, with the same payload, and it is sent again only
\* after a transport failure or an answer 429, 500, 502, 503 or 504.
C14_AtMostOneClientCall ==
    cmd \in MutatingCommands =>
        /\ Cardinality(PolicyEvaluations) <= 1
        /\ Cardinality(ClientCalls) <= 1
        /\ Cardinality(RequestsSent) <= 4
        /\ RequestsSent # {} => Cardinality(ClientCalls) = 1
        /\ \A i, j \in RequestsSent :
              /\ events[i].data = events[j].data
              /\ events[i].domain = events[j].domain
              /\ events[i].service = events[j].service
              /\ i < j => Retried(events[i].answer)

C14_Witness ==
    /\ cmd = "toggle"
    /\ Cardinality(PolicyEvaluations) = 1
    /\ Cardinality(ClientCalls) = 1
    /\ Cardinality(RequestsAnswered) = 2
    /\ exit_code = 0

\* C15: a client operation makes at most max_retries + 1 = 4 attempts; only a
\* transport failure or an answer 429, 500, 502, 503 or 504 is followed by
\* another attempt; and when the attempts run out on such an answer, the
\* ApiError raised carries the status of that last answer.
C15_BoundedRetries ==
    cmd \in MutatingCommands =>
        /\ Cardinality(RequestsSent) <= 4
        /\ \A i, j \in RequestsSent : i < j => Retried(events[i].answer)
        /\ \A i \in RequestsSent :
              ( /\ events[i].attempt = 4
                /\ events[i].answer \in {429, 500, 502, 503, 504} )
              => \E k \in ApiErrors : k > i /\ events[k].status_code = events[i].answer

----------------------------------------------------------------------------
(* Properties of the order of the rules of check_action (checked under
   SpecPolicy) *)

\* C16: the rules short-circuit in order, so Denied takes precedence over
\* RequiresConfirmation: at level >= 1 an entity id that is blocked, or that
\* misses a non-empty allowlist, is Denied even when its domain is critical and
\* the action is a write action without force; the blocklist is consulted
\* before the allowlist, so an id matching both lists is Denied as BLOCKED.
C16_DeniedTakesPrecedence ==
    (cmd = "check_action" /\ config.level >= 1) =>
        LET blocked == \E i \in 1..Len(config.blocked_entities) :
                          fnmatch(entity_id, config.blocked_entities[i])
            matches == \E i \in 1..Len(config.allowed_entities) :
                          fnmatch(entity_id, config.allowed_entities[i])
            miss    == config.allowed_entities # <<>> /\ ~matches
        IN  /\ (blocked \/ miss) => decision = "Denied"
            /\ blocked => /\ Len(events) = 1
                          /\ events[1].tag = "BLOCKED"
            /\ (miss /\ ~blocked) => /\ Len(events) = 1
                                     /\ events[1].tag = "DENIED"

\* a blocked id of a critical domain, write action, no force, level 3
C16_Witness ==
    /\ cmd = "check_action"
    /\ config.level = 3
    /\ config.blocked_entities = << <<"l", ".", "*">> >>
    /\ config.critical_domains = << <<"l">> >>
    /\ entity_id = <<"l", ".", "s">>
    /\ action = turn_on
    /\ ~force
    /\ decision = "Denied"

\* an id that matches the blocklist and the allowlist
C16_WitnessBothLists ==
    /\ cmd = "check_action"
    /\ config.level >= 1
    /\ config.blocked_entities = << <<"l", ".", "*">> >>
    /\ config.allowed_entities = << <<"*", "?", "l">> >>
    /\ entity_id = <<"l", ".", "l">>
    /\ decision = "Denied"

\* C18: force only relaxes confirmation: where check_action without force is
\* Allowed or Denied, check_action with force gives the same decision; where
\* it is RequiresConfirmation, check_action with force is Allowed; and
\* check_action with force is never RequiresConfirmation.
C18_ForceOnlyRelaxesConfirmation ==
    cmd = "check_action" =>
        LET other    == check_action(entity_id, action, config, ~force).decision
            unforced == IF force THEN other ELSE decision
            forced   == IF force THEN decision ELSE other
        IN  /\ unforced \in {"Allowed", "Denied"} => forced = unforced
            /\ unforced = "RequiresConfirmation" => forced = "Allowed"
            /\ forced # "RequiresConfirmation"

\* a forced call that is Allowed where the unforced one needs confirmation
C18_Witness ==
    /\ cmd = "check_action"
    /\ force
    /\ decision = "Allowed"
    /\ check_action(entity_id, action, config, FALSE).decision = "RequiresConfirmation"

\* a forced call that stays Denied on an allowlist miss
C18_WitnessDenied ==
    /\ cmd = "check_action"
    /\ force
    /\ config.blocked_entities = <<>>
    /\ config.allowed_entities # <<>>
    /\ decision = "Denied"
    /\ check_action(entity_id, action, config, FALSE).decision = "Denied"

\* C19: at level 1 check_action is never RequiresConfirmation: it is Denied
\* exactly on a blocklist hit or an allowlist miss and Allowed otherwise, for
\* every entity id, action name and force flag.
C19_LevelOneNeverConfirms ==
    (cmd = "check_action" /\ config.level = 1) =>
        LET blocked == \E i \in 1..Len(config.blocked_entities) :
                          fnmatch(entity_id, config.blocked_entities[i])
            matches == \E i \in 1..Len(config.allowed_entities) :
                          fnmatch(entity_id, config.allowed_entities[i])
            miss    == config.allowed_entities # <<>> /\ ~matches
        IN  /\ decision # "RequiresConfirmation"
            /\ decision = (IF blocked \/ miss THEN "Denied" ELSE "Allowed")

\* level 1, critical domain, write action, no force: Allowed
C19_Witness ==
    /\ cmd = "check_action"
    /\ config.level = 1
    /\ config.critical_domains = << <<"l">> >>
    /\ entity_id = <<"l", ".", "s">>
    /\ action = turn_on
    /\ ~force
    /\ decision = "Allowed"

----------------------------------------------------------------------------
(* Properties of the payload of set (checked under Spec) *)

\* C17: in set the entity id that check_action evaluated is the entity id the
\* posted payload carries, for every list of key=value tokens: a token
\* entity_id=<other> does not redirect the service call.
C17_SetActsOnCheckedEntity ==
    cmd = "set" =>
        \A i \in RequestsSent :
            /\ entity_id_key \in DOMAIN events[i].data
            /\ events[i].data[entity_id_key] = PyStr(entity_id)

----------------------------------------------------------------------------
(* Properties of config show (checked under SpecConfig) *)

\* sub occurs in s as a contiguous piece
Contains(s, sub) ==
    \E i \in 0..(Len(s) - Len(sub)) : SubSeq(s, i + 1, i + Len(sub)) = sub

\* C20: config show masks the token: for every non-empty token the displayed
\* text is "***" followed by a proper suffix of the token, and it never
\* contains the complete token.
C20_TokenMasked ==
    cmd = "config_show" =>
        /\ \E k \in 0..(Len(token) - 1) :
               output.server.token = <<"*", "*", "*">> \o last_chars(token, k)
        /\ ~Contains(output.server.token, token)

====
